---- MODULE Spec2Model ----
(***************************************************************************)
(* The extended signal interface of one modem (mm-iface-modem-signal.c):   *)
(* the DBus skeleton with its rate and measurement properties, the refresh *)
(* context kept as qdata of the modem object, the timeout sources of the   *)
(* main loop, the load_values calls in flight and the Setup() invocations  *)
(* waiting for their authorization.                                        *)
(***************************************************************************)
EXTENDS Integers, Sequences, FiniteSets, TLC

VARIABLES
    supported,        \* the class implements load_values and load_values_finish
    modem_state,      \* MM_IFACE_MODEM_STATE of the modem object
    skeleton,         \* MM_IFACE_MODEM_SIGNAL_DBUS_SKELETON: NULL or the skeleton
    exported,         \* the object skeleton has the modem-signal interface set
    ctx,              \* qdata under refresh_context_quark: NULL or a RefreshContext
    sources,          \* timeout sources attached to the main loop
    next_source_id,   \* id the next g_timeout_add_seconds() returns
    inflight,         \* load_values() calls not yet completed, oldest first
    pending,          \* Setup() invocations waiting in mm_base_modem_authorize()
    enabled,          \* enable() ran more recently than disable()
    completion,       \* the operation that ran last and how it completed
    codec             \* one use of the firmware update settings codec

vars == <<supported, modem_state, skeleton, exported, ctx, sources,
          next_source_id, inflight, pending, enabled, completion, codec>>

----------------------------------------------------------------------------
(* Bounds of the model *)

MaxMethod == 2
MaxEntries == 3
MaxRate == 2
MaxInFlight == 2
MaxPending == 1
MaxSourceId == 2
NumSamples == 1
StateSpan == 1

(* Program constants *)

MM_MODEM_STATE_ENABLING == 5
MM_MODEM_FIRMWARE_UPDATE_METHOD_UNKNOWN == 0
MM_MODEM_FIRMWARE_UPDATE_METHOD_FASTBOOT == 1
PROPERTY_FASTBOOT_AT == "fastboot-at"

\* A null pointer; it compares unequal to every object of the model
NULL == [null |-> TRUE]

\* load_values_finish() returned FALSE and set the error
LoadError == [error |-> TRUE]

Rates == 0..MaxRate
ModemStates == (MM_MODEM_STATE_ENABLING - StateSpan)..(MM_MODEM_STATE_ENABLING + StateSpan)

----------------------------------------------------------------------------
(* The measurement properties of the skeleton *)

Techs == {"cdma", "evdo", "gsm", "umts", "lte"}

Fields == {"cdma_rssi", "cdma_ecio",
           "evdo_rssi", "evdo_ecio", "evdo_sinr", "evdo_io",
           "gsm_rssi",
           "umts_rssi", "umts_ecio",
           "lte_rssi", "lte_rsrq", "lte_rsrp", "lte_snr"}

TechOf(f) ==
    CASE f \in {"cdma_rssi", "cdma_ecio"} -> "cdma"
      [] f \in {"evdo_rssi", "evdo_ecio", "evdo_sinr", "evdo_io"} -> "evdo"
      [] f \in {"gsm_rssi"} -> "gsm"
      [] f \in {"umts_rssi", "umts_ecio"} -> "umts"
      [] f \in {"lte_rssi", "lte_rsrq", "lte_rsrp", "lte_snr"} -> "lte"

FieldIndex(f) ==
    CASE f = "cdma_rssi" -> 1 [] f = "cdma_ecio" -> 2
      [] f = "evdo_rssi" -> 3 [] f = "evdo_ecio" -> 4
      [] f = "evdo_sinr" -> 5 [] f = "evdo_io" -> 6
      [] f = "gsm_rssi" -> 7
      [] f = "umts_rssi" -> 8 [] f = "umts_ecio" -> 9
      [] f = "lte_rssi" -> 10 [] f = "lte_rsrq" -> 11
      [] f = "lte_rsrp" -> 12 [] f = "lte_snr" -> 13

TechIndex(t) ==
    CASE t = "cdma" -> 1 [] t = "evdo" -> 2 [] t = "gsm" -> 3
      [] t = "umts" -> 4 [] t = "lte" -> 5

\* g_variant_new ("(bd)", FALSE, 0.0)
Unavailable == [available |-> FALSE, value |-> 0]

\* What load_values_finish() hands back on success: one availability flag per
\* technology and one reading per field.  Sample s has every reading distinct.
LoadSample(s) ==
    [available |-> [t \in Techs |-> (TechIndex(t) + s) % 2 = 0],
     value     |-> [f \in Fields |-> 0 - (20 * s + FieldIndex(f))]]

LoadResults == {LoadSample(s) : s \in 1..NumSamples}

\* mm_gdbus_modem_signal_skeleton_new (): rate 0, no variant set yet
NewSkeleton ==
    [rate |-> 0, values |-> [f \in Fields |-> NULL], handlers |-> 0, dirty |-> FALSE]

AllUnavailable(sk) == \A f \in Fields : sk.values[f] = Unavailable

----------------------------------------------------------------------------
(* The part of the state the functions of the file read and write *)

Cur ==
    [skeleton |-> skeleton, exported |-> exported, ctx |-> ctx, sources |-> sources,
     next_source_id |-> next_source_id, inflight |-> inflight]

Commit(s) ==
    /\ skeleton' = s.skeleton
    /\ exported' = s.exported
    /\ ctx' = s.ctx
    /\ sources' = s.sources
    /\ next_source_id' = s.next_source_id
    /\ inflight' = s.inflight

\* The bounds of the model: calls in flight and source ids handed out
WithinBounds(s) ==
    /\ Len(s.inflight) <= MaxInFlight
    /\ s.next_source_id <= MaxSourceId + 1

\* Mutant: the source stays attached to the main loop
g_source_remove_forgotten(s, id) ==
    s

g_source_remove(s, id) ==
    [s EXCEPT !.sources = {t \in s.sources : t.id # id}]

\* Mutant: the context is released without removing its timeout source
refresh_context_free_keeps_source(s) ==
    [s EXCEPT !.ctx = NULL]

refresh_context_free(s) ==
    LET t == IF s.ctx.timeout_source # 0
             THEN g_source_remove(s, s.ctx.timeout_source)
             ELSE s
    IN [t EXCEPT !.ctx = NULL]

\* g_object_set_qdata (self, refresh_context_quark, NULL): the destroy notify
\* of the old value runs
clear_qdata(s) ==
    IF s.ctx = NULL THEN s ELSE refresh_context_free(s)

\* Mutant: one of the thirteen properties is not reset
clear_values_skips_lte_snr(s) ==
    IF s.skeleton = NULL
    THEN s
    ELSE [s EXCEPT !.skeleton.values = [f \in Fields |-> IF f = "lte_snr"
                                                         THEN s.skeleton.values[f]
                                                         ELSE Unavailable],
                   !.skeleton.dirty = TRUE]

clear_values(s) ==
    IF s.skeleton = NULL
    THEN s
    ELSE [s EXCEPT !.skeleton.values = [f \in Fields |-> Unavailable],
                   !.skeleton.dirty = TRUE]

\* load_values (self, NULL, load_values_ready, NULL): one more call in flight
refresh_context_cb(s) ==
    [s EXCEPT !.inflight = Append(@, "load_values")]

\* Mutant: a failed load also drops the refresh context and its timer
load_values_ready_stops_on_error(s, res) ==
    IF res = LoadError
    THEN clear_qdata(clear_values(s))
    ELSE IF s.skeleton = NULL
    THEN s
    ELSE [s EXCEPT !.skeleton.values =
                       [f \in Fields |-> [available |-> res.available[TechOf(f)],
                                          value |-> res.value[f]]],
                   !.skeleton.dirty = FALSE]

\* Mutant: the LTE RSRP property is given the RSRQ reading
load_values_ready_rsrp_from_rsrq(s, res) ==
    IF res = LoadError
    THEN clear_values(s)
    ELSE IF s.skeleton = NULL
    THEN s
    ELSE [s EXCEPT !.skeleton.values =
                       [f \in Fields |-> [available |-> res.available[TechOf(f)],
                                          value |-> IF f = "lte_rsrp"
                                                    THEN res.value["lte_rsrq"]
                                                    ELSE res.value[f]]],
                   !.skeleton.dirty = FALSE]

load_values_ready(s, res) ==
    IF res = LoadError
    THEN clear_values(s)
    ELSE IF s.skeleton = NULL
    THEN s
    ELSE [s EXCEPT !.skeleton.values =
                       [f \in Fields |-> [available |-> res.available[TechOf(f)],
                                          value |-> res.value[f]]],
                   !.skeleton.dirty = FALSE]

teardown_refresh_context(s) ==
    clear_qdata(clear_values(s))

\* Mutant: the state is compared with the state after "enabling"
modem_not_yet_enabled_off_by_one(st) ==
    st < MM_MODEM_STATE_ENABLING + 1

\* modem_state < MM_MODEM_STATE_ENABLING
modem_not_yet_enabled(st) ==
    st < MM_MODEM_STATE_ENABLING

\* Mutant: the timer is set up again whatever the old rate
already_there_never(c, new_rate) ==
    FALSE

\* ctx->rate == new_rate
already_there(c, new_rate) ==
    c.rate = new_rate

\* Mutant: the new timeout source is added without removing the old one
setup_refresh_context_keeps_old_timer(s, update_rate, rate) ==
    IF s.skeleton = NULL
    THEN [ok |-> FALSE, error |-> "Failed", s |-> s]
    ELSE
      LET s1 == IF update_rate
                THEN [s EXCEPT !.skeleton.rate = rate, !.skeleton.dirty = TRUE]
                ELSE s
          new_rate == IF update_rate THEN rate ELSE s.skeleton.rate
      IN IF new_rate = 0
         THEN [ok |-> TRUE, error |-> NULL, s |-> clear_qdata(clear_values(s1))]
         ELSE IF modem_not_yet_enabled(modem_state)
         THEN [ok |-> TRUE, error |-> NULL, s |-> s1]
         ELSE
           LET s2 == IF s1.ctx = NULL
                     THEN [s1 EXCEPT !.ctx = [rate |-> 0, timeout_source |-> 0]]
                     ELSE s1
           IN IF already_there(s2.ctx, new_rate)
              THEN [ok |-> TRUE, error |-> NULL, s |-> s2]
              ELSE
                LET s4 == [s2 EXCEPT
                             !.ctx = [rate |-> new_rate,
                                      timeout_source |-> s2.next_source_id],
                             !.sources = @ \cup {[id |-> s2.next_source_id,
                                                  interval |-> new_rate]},
                             !.next_source_id = @ + 1]
                IN [ok |-> TRUE, error |-> NULL, s |-> refresh_context_cb(s4)]

setup_refresh_context(s, update_rate, rate) ==
    IF s.skeleton = NULL
    THEN [ok |-> FALSE, error |-> "Failed", s |-> s]
    ELSE
      LET s1 == IF update_rate
                THEN [s EXCEPT !.skeleton.rate = rate, !.skeleton.dirty = TRUE]
                ELSE s
          new_rate == IF update_rate THEN rate ELSE s.skeleton.rate
      IN IF new_rate = 0
         THEN [ok |-> TRUE, error |-> NULL, s |-> clear_qdata(clear_values(s1))]
         ELSE IF modem_not_yet_enabled(modem_state)
         THEN [ok |-> TRUE, error |-> NULL, s |-> s1]
         ELSE
           LET s2 == IF s1.ctx = NULL
                     THEN [s1 EXCEPT !.ctx = [rate |-> 0, timeout_source |-> 0]]
                     ELSE s1
           IN IF already_there(s2.ctx, new_rate)
              THEN [ok |-> TRUE, error |-> NULL, s |-> s2]
              ELSE
                LET s3 == IF s2.ctx.timeout_source # 0
                          THEN g_source_remove(s2, s2.ctx.timeout_source)
                          ELSE s2
                    s4 == [s3 EXCEPT
                             !.ctx = [rate |-> new_rate,
                                      timeout_source |-> s3.next_source_id],
                             !.sources = @ \cup {[id |-> s3.next_source_id,
                                                  interval |-> new_rate]},
                             !.next_source_id = @ + 1]
                IN [ok |-> TRUE, error |-> NULL, s |-> refresh_context_cb(s4)]

\* Mutant: the measurements are reset on every call
mm_iface_modem_signal_initialize_resets(s) ==
    LET s1 == IF s.skeleton # NULL
              THEN IF supported THEN clear_values(s) ELSE s
              ELSE LET n == [s EXCEPT !.skeleton = NewSkeleton]
                   IN IF supported
                      THEN [clear_values(n) EXCEPT !.skeleton.handlers = @ + 1,
                                                   !.exported = TRUE]
                      ELSE n
    IN IF supported
       THEN [ok |-> TRUE, error |-> NULL, s |-> s1]
       ELSE [ok |-> FALSE, error |-> "Unsupported", s |-> s1]

\* Mutant: the handler is connected and the interface exported without
\* looking at supported
mm_iface_modem_signal_initialize_always_exports(s) ==
    LET s1 == IF s.skeleton # NULL
              THEN s
              ELSE [clear_values([s EXCEPT !.skeleton = NewSkeleton])
                       EXCEPT !.skeleton.handlers = @ + 1, !.exported = TRUE]
    IN IF supported
       THEN [ok |-> TRUE, error |-> NULL, s |-> s1]
       ELSE [ok |-> FALSE, error |-> "Unsupported", s |-> s1]

\* Mutant: the new skeleton starts with a rate of 1 second
mm_iface_modem_signal_initialize_default_rate(s) ==
    LET s1 == IF s.skeleton # NULL
              THEN s
              ELSE LET n == [s EXCEPT !.skeleton = [NewSkeleton EXCEPT !.rate = 1]]
                   IN IF supported
                      THEN [clear_values(n) EXCEPT !.skeleton.handlers = @ + 1,
                                                   !.exported = TRUE]
                      ELSE n
    IN IF supported
       THEN [ok |-> TRUE, error |-> NULL, s |-> s1]
       ELSE [ok |-> FALSE, error |-> "Unsupported", s |-> s1]

mm_iface_modem_signal_initialize(s) ==
    LET s1 == IF s.skeleton # NULL
              THEN s
              ELSE LET n == [s EXCEPT !.skeleton = NewSkeleton]
                   IN IF supported
                      THEN [clear_values(n) EXCEPT !.skeleton.handlers = @ + 1,
                                                   !.exported = TRUE]
                      ELSE n
    IN IF supported
       THEN [ok |-> TRUE, error |-> NULL, s |-> s1]
       ELSE [ok |-> FALSE, error |-> "Unsupported", s |-> s1]

\* Mutant: the error of setup_refresh_context is dropped
mm_iface_modem_signal_enable_drops_error(s) ==
    [setup_refresh_context(s, FALSE, 0) EXCEPT !.ok = TRUE]

mm_iface_modem_signal_enable(s) ==
    setup_refresh_context(s, FALSE, 0)

mm_iface_modem_signal_disable(s) ==
    [ok |-> TRUE, error |-> NULL, s |-> teardown_refresh_context(s)]

mm_iface_modem_signal_shutdown(s) ==
    [s EXCEPT !.exported = FALSE, !.skeleton = NULL]

\* Mutant: the invocation is completed with success whatever
\* setup_refresh_context returned
handle_setup_auth_ready_drops_error(s, authorized, rate) ==
    IF ~authorized
    THEN [ok |-> FALSE, error |-> "Unauthorized", s |-> s]
    ELSE [setup_refresh_context(s, TRUE, rate) EXCEPT !.ok = TRUE]

\* Mutant: the rate is applied before the result of the authorization is read
handle_setup_auth_ready_acts_first(s, authorized, rate) ==
    LET r == setup_refresh_context(s, TRUE, rate)
    IN IF ~authorized
       THEN [ok |-> FALSE, error |-> "Unauthorized", s |-> r.s]
       ELSE r

handle_setup_auth_ready(s, authorized, rate) ==
    IF ~authorized
    THEN [ok |-> FALSE, error |-> "Unauthorized", s |-> s]
    ELSE setup_refresh_context(s, TRUE, rate)

----------------------------------------------------------------------------
(* Actions.  Each records in completion which operation ran, the result its  *)
(* caller is given, the rate argument of a Setup() call, the verdict of the  *)
(* authorization, whether a timeout source was attached when it started and, *)
(* for the completion of a load_values call, how many calls issued before it *)
(* were still in flight.                                                     *)

Done(op, r, rate, auth) ==
    completion' = [op |-> op,
                   result |-> IF r.ok THEN "ok" ELSE r.error,
                   rate |-> rate,
                   auth |-> auth,
                   had_timer |-> sources # {},
                   older |-> 0]

NoResult == [ok |-> FALSE, error |-> "none"]
Success == [ok |-> TRUE, error |-> NULL]

RemoveAt(q, i) == [j \in 1..(Len(q) - 1) |-> IF j < i THEN q[j] ELSE q[j + 1]]

Initialize ==
    LET r == mm_iface_modem_signal_initialize(Cur)
    IN /\ Commit(r.s)
       /\ Done("initialize", r, 0, "none")
       /\ UNCHANGED <<codec, supported, modem_state, pending, enabled>>

Enable ==
    LET r == mm_iface_modem_signal_enable(Cur)
    IN /\ WithinBounds(r.s)
       /\ Commit(r.s)
       /\ enabled' = TRUE
       /\ Done("enable", r, 0, "none")
       /\ UNCHANGED <<codec, supported, modem_state, pending>>

Disable ==
    LET r == mm_iface_modem_signal_disable(Cur)
    IN /\ Commit(r.s)
       /\ enabled' = FALSE
       /\ Done("disable", r, 0, "none")
       /\ UNCHANGED <<codec, supported, modem_state, pending>>

Shutdown ==
    /\ Commit(mm_iface_modem_signal_shutdown(Cur))
    /\ Done("shutdown", Success, 0, "none")
    /\ UNCHANGED <<codec, supported, modem_state, pending, enabled>>

\* A Setup(rate) call arrives on the bus: the interface is exported and the
\* "handle-setup" handler is connected.  The call waits for its authorization.
HandleSetup(rate) ==
    /\ skeleton # NULL
    /\ exported
    /\ skeleton.handlers > 0
    /\ Len(pending) < MaxPending
    /\ pending' = Append(pending, [rate |-> rate])
    /\ Done("handle_setup", NoResult, rate, "none")
    /\ UNCHANGED <<codec, supported, modem_state, skeleton, exported, ctx, sources,
                   next_source_id, inflight, enabled>>

\* mm_base_modem_authorize() completes for the i-th waiting invocation
HandleSetupAuthReady(i, authorized) ==
    LET r == handle_setup_auth_ready(Cur, authorized, pending[i].rate)
    IN /\ WithinBounds(r.s)
       /\ Commit(r.s)
       /\ pending' = RemoveAt(pending, i)
       /\ Done("setup", r, pending[i].rate, IF authorized THEN "granted" ELSE "denied")
       /\ UNCHANGED <<codec, supported, modem_state, enabled>>

\* A timeout source of the main loop fires
Timeout(t) ==
    LET s == refresh_context_cb(Cur)
    IN /\ WithinBounds(s)
       /\ Commit(s)
       /\ Done("timeout", NoResult, t.interval, "none")
       /\ UNCHANGED <<codec, supported, modem_state, pending, enabled>>

\* The backend completes the i-th call in flight with res
LoadValuesReady(i, res) ==
    /\ Commit(load_values_ready([Cur EXCEPT !.inflight = RemoveAt(@, i)], res))
    /\ completion' = [op |-> "load_values_ready",
                      result |-> IF res = LoadError THEN "error" ELSE "ok",
                      rate |-> 0,
                      auth |-> "none",
                      had_timer |-> sources # {},
                      older |-> i - 1]
    /\ UNCHANGED <<codec, supported, modem_state, pending, enabled>>

\* The modem object changes its state
ModemStateChange(st) ==
    /\ st # modem_state
    /\ modem_state' = st
    /\ Done("state", NoResult, 0, "none")
    /\ UNCHANGED <<codec, supported, skeleton, exported, ctx, sources, next_source_id,
                   inflight, pending, enabled>>

Init ==
    /\ supported \in BOOLEAN
    /\ modem_state \in ModemStates
    /\ skeleton = NULL
    /\ exported = FALSE
    /\ ctx = NULL
    /\ sources = {}
    /\ next_source_id = 1
    /\ inflight = <<>>
    /\ pending = <<>>
    /\ enabled = FALSE
    /\ completion = [op |-> "none", result |-> "none", rate |-> 0,
                     auth |-> "none", had_timer |-> FALSE, older |-> 0]
    /\ codec = NULL

Next ==
    \/ Initialize
    \/ Enable
    \/ Disable
    \/ Shutdown
    \/ \E rate \in Rates : HandleSetup(rate)
    \/ \E i \in 1..Len(pending) : \E authorized \in BOOLEAN : HandleSetupAuthReady(i, authorized)
    \/ \E t \in sources : Timeout(t)
    \/ \E i \in 1..Len(inflight) : \E res \in LoadResults \cup {LoadError} : LoadValuesReady(i, res)
    \/ \E st \in ModemStates : ModemStateChange(st)

Spec == Init /\ [][Next]_vars

----------------------------------------------------------------------------
(* The firmware update settings (mm-firmware-update-settings.c).  A settings *)
(* object is [method, fastboot_at]; a C string is [str |-> ...] or NULL; a   *)
(* GVariant is NULL, a value of another type, or a "(ua{sv})" tuple with its *)
(* method and the entries of its dictionary in order.                        *)

Methods == 0..MaxMethod
Strings == {"AT^FASTBOOT", "AT+RESET"}
Keys == {PROPERTY_FASTBOOT_AT, "version"}

Str(x) == [str |-> x]

\* g_variant_new_string ()
StringVariant(x) == [type |-> "s", str |-> x]

TupleVariant(method, dict) == [type |-> "(ua{sv})", method |-> method, dict |-> dict]

\* mm_firmware_update_settings_new () and mm_firmware_update_settings_init ()
mm_firmware_update_settings_new(method) ==
    [method |-> method, fastboot_at |-> NULL]

mm_firmware_update_settings_set_fastboot_at(self, fastboot_at) ==
    IF self.method = MM_MODEM_FIRMWARE_UPDATE_METHOD_FASTBOOT
    THEN [self EXCEPT !.fastboot_at = Str(fastboot_at)]
    ELSE self

\* g_variant_builder_end () of a "(ua{sv})" builder: a tuple is built only
\* when both of its items were added; otherwise the call fails its check and
\* returns NULL, which g_variant_ref_sink () hands on.
g_variant_builder_end(items) ==
    IF Len(items) = 2
    THEN TupleVariant(items[1], items[2])
    ELSE NULL

mm_firmware_update_settings_get_variant(self) ==
    LET method == IF self = NULL
                  THEN MM_MODEM_FIRMWARE_UPDATE_METHOD_UNKNOWN
                  ELSE self.method
        added == <<method>>
    IN IF method = MM_MODEM_FIRMWARE_UPDATE_METHOD_FASTBOOT
       THEN g_variant_builder_end(
                Append(added, <<[key |-> PROPERTY_FASTBOOT_AT,
                                 value |-> StringVariant(self.fastboot_at.str)]>>))
       ELSE g_variant_builder_end(added)

\* Mutant: every key is accepted, an unknown one is skipped
consume_variant_skips_unknown(self, key, value) ==
    IF key = PROPERTY_FASTBOOT_AT
    THEN [ok |-> TRUE, self |-> [self EXCEPT !.fastboot_at = Str(value.str)]]
    ELSE [ok |-> TRUE, self |-> self]

consume_variant(self, key, value) ==
    IF key = PROPERTY_FASTBOOT_AT
    THEN [ok |-> TRUE, self |-> [self EXCEPT !.fastboot_at = Str(value.str)]]
    ELSE [ok |-> FALSE, self |-> self]

\* The loop over the dictionary: it stops at the first entry that fails
RECURSIVE consume_entries(_, _, _)
consume_entries(self, dict, i) ==
    IF i > Len(dict)
    THEN [ok |-> TRUE, self |-> self]
    ELSE LET r == consume_variant(self, dict[i].key, dict[i].value)
         IN IF r.ok THEN consume_entries(r.self, dict, i + 1) ELSE r

\* Mutant: the fastboot method does not ask for its setting
missing_required_setting_never(self) ==
    FALSE

\* The switch on the method after the loop
missing_required_setting(self) ==
    /\ self.method = MM_MODEM_FIRMWARE_UPDATE_METHOD_FASTBOOT
    /\ self.fastboot_at = NULL

InvalidArgs == [ok |-> FALSE, error |-> "InvalidArguments", self |-> NULL]

mm_firmware_update_settings_new_from_variant(variant) ==
    IF variant = NULL
    THEN InvalidArgs
    ELSE IF variant.type # "(ua{sv})"
    THEN InvalidArgs
    ELSE LET r == consume_entries(mm_firmware_update_settings_new(variant.method),
                                  variant.dict, 1)
         IN IF ~r.ok
            THEN InvalidArgs
            ELSE IF missing_required_setting(r.self)
            THEN InvalidArgs
            ELSE [ok |-> TRUE, error |-> "none", self |-> r.self]

\* The settings objects a caller builds: any method, and for the fastboot
\* method the command set
SettingsInputs ==
    {mm_firmware_update_settings_new(m) :
        m \in Methods \ {MM_MODEM_FIRMWARE_UPDATE_METHOD_FASTBOOT}}
    \cup {mm_firmware_update_settings_set_fastboot_at(
              mm_firmware_update_settings_new(MM_MODEM_FIRMWARE_UPDATE_METHOD_FASTBOOT), x) :
          x \in Strings}

Entries == {[key |-> k, value |-> StringVariant(x)] : k \in Keys, x \in Strings}

RECURSIVE SeqsUpTo(_, _)
SeqsUpTo(S, n) ==
    IF n = 0
    THEN {<<>>}
    ELSE LET shorter == SeqsUpTo(S, n - 1)
         IN shorter \cup {Append(q, e) : q \in {x \in shorter : Len(x) = n - 1}, e \in S}

\* The variants a caller hands to the decoder: none, one of another type, and
\* every "(ua{sv})" tuple over the methods and the entries
VariantInputs ==
    {NULL, StringVariant("x")}
    \cup {TupleVariant(m, d) : m \in Methods, d \in SeqsUpTo(Entries, MaxEntries)}

SignalIdle ==
    /\ supported = TRUE
    /\ modem_state = MM_MODEM_STATE_ENABLING
    /\ skeleton = NULL
    /\ exported = FALSE
    /\ ctx = NULL
    /\ sources = {}
    /\ next_source_id = 1
    /\ inflight = <<>>
    /\ pending = <<>>
    /\ enabled = FALSE
    /\ completion = [op |-> "none", result |-> "none", rate |-> 0,
                     auth |-> "none", had_timer |-> FALSE, older |-> 0]

SignalUnchanged ==
    UNCHANGED <<supported, modem_state, skeleton, exported, ctx, sources,
                next_source_id, inflight, pending, enabled, completion>>

InitCodec ==
    /\ SignalIdle
    /\ \/ \E s \in SettingsInputs :
            codec = [pc |-> "start", origin |-> "settings", settings |-> s,
                     variant |-> NULL, result |-> NULL, error |-> "none"]
       \/ \E v \in VariantInputs :
            codec = [pc |-> "start", origin |-> "variant", settings |-> NULL,
                     variant |-> v, result |-> NULL, error |-> "none"]

\* The settings are encoded
GetVariant ==
    /\ codec.pc = "start"
    /\ codec.origin = "settings"
    /\ codec' = [codec EXCEPT !.pc = "encoded",
                              !.variant = mm_firmware_update_settings_get_variant(codec.settings)]
    /\ SignalUnchanged

\* The variant (given, or just encoded) is decoded
NewFromVariant ==
    /\ \/ codec.pc = "encoded"
       \/ codec.pc = "start" /\ codec.origin = "variant"
    /\ LET r == mm_firmware_update_settings_new_from_variant(codec.variant)
       IN codec' = [codec EXCEPT !.pc = "decoded",
                                 !.result = r.self,
                                 !.error = r.error]
    /\ SignalUnchanged

NextCodec ==
    \/ GetVariant
    \/ NewFromVariant

SpecCodec == InitCodec /\ [][NextCodec]_vars

----------------------------------------------------------------------------
(* Properties *)

LiveTimer == sources # {}
CtxRate == IF ctx = NULL THEN 0 ELSE ctx.rate
Granted == completion.op = "setup" /\ completion.auth = "granted"
Measurements == <<skeleton, exported, ctx, sources, next_source_id, inflight>>

\* C1: a live polling timer exists if and only if the rate is greater than 0,
\* the capability is enabled (enable() ran after the last disable()) and the
\* modem state is at least "enabling".
C1_TimerIffRateEnabledState ==
    LiveTimer <=> (CtxRate > 0 /\ enabled /\ modem_state >= MM_MODEM_STATE_ENABLING)

\* C2: no poll (a call of the backend's load_values, from a timer tick or from
\* the immediate poll of a setup) is issued while the modem state is below
\* "enabling".
C2_NoPollBelowEnabling ==
    [][Len(inflight') > Len(inflight) => modem_state >= MM_MODEM_STATE_ENABLING]_vars

\* C3: the completion of a poll whose refresh context was torn down while the
\* poll was in flight (no context exists when it completes) changes no
\* published measurement.
C3_LateCompletionIsNoOp ==
    [][(completion'.op = "load_values_ready" /\ ctx = NULL /\ skeleton # NULL)
          => skeleton'.values = skeleton.values]_vars

\* C4: after shutdown() ran with a timer armed, no timeout source is attached
\* (so no tick fires) and no refresh context remains.
C4_ShutdownCancelsTimer ==
    (completion.op = "shutdown" /\ completion.had_timer) => (sources = {} /\ ctx = NULL)

\* C5: disable() always succeeds and leaves no refresh context, no timeout
\* source and, on the skeleton, every measurement unavailable; a tick fires only
\* for an attached source, and once none is attached only a successful enable()
\* or Setup() attaches one.
C5_DisableTearsDown ==
    /\ [](completion.op = "disable" =>
            /\ completion.result = "ok"
            /\ ctx = NULL
            /\ sources = {}
            /\ (skeleton # NULL => AllUnavailable(skeleton)))
    /\ [][completion'.op = "timeout" => sources # {}]_vars
    /\ [][(sources = {} /\ sources' # {}) =>
            (completion'.op \in {"enable", "setup"} /\ completion'.result = "ok")]_vars

\* C5 witness: disable() ran with a timer armed and a poll in flight
C5_Witness ==
    /\ completion.op = "disable"
    /\ completion.had_timer
    /\ skeleton # NULL
    /\ skeleton.rate > 0
    /\ inflight # <<>>

\* C6: a Setup(rate) whose authorization is denied fails with the error of the
\* authorization and changes neither the skeleton (rate, measurements) nor the
\* refresh context, the timeout sources or the calls in flight; accepting the
\* call changes none of them either, and the rate of a skeleton changes only
\* in the completion of a granted authorization.
C6_DeniedSetupChangesNothing ==
    [][/\ completion'.auth = "denied" =>
            (completion'.result = "Unauthorized" /\ UNCHANGED Measurements)
       /\ completion'.op = "handle_setup" => UNCHANGED Measurements
       /\ (skeleton # NULL /\ skeleton' # NULL /\ skeleton'.rate # skeleton.rate) =>
            (completion'.op = "setup" /\ completion'.auth = "granted")]_vars

\* C6 witness: a denied Setup(rate) with polling active at another rate
C6_Witness ==
    /\ completion.auth = "denied"
    /\ completion.had_timer
    /\ skeleton # NULL
    /\ completion.rate # skeleton.rate
    /\ ctx # NULL

\* C7: when a granted Setup(0), or enable() with a published rate of 0, runs
\* with a timer armed, it succeeds, no timeout source and no refresh context
\* remain, every measurement reads unavailable and the rate reads 0.
C7_RateZeroStopsPolling ==
    LET zero_setup == Granted /\ completion.rate = 0
        zero_enable == completion.op = "enable" /\ skeleton.rate = 0
    IN (completion.had_timer /\ skeleton # NULL /\ (zero_setup \/ zero_enable)) =>
          /\ completion.result = "ok"
          /\ sources = {}
          /\ ctx = NULL
          /\ AllUnavailable(skeleton)
          /\ skeleton.rate = 0

\* C7 witness: a granted Setup(0) ran with a timer armed and a poll in flight
C7_Witness ==
    /\ Granted
    /\ completion.rate = 0
    /\ completion.had_timer
    /\ skeleton # NULL
    /\ inflight # <<>>

\* C8: enable() or a granted Setup() asking for the nonzero rate the existing
\* refresh context already has succeeds and leaves the context, its timeout
\* source (same id, so neither removed nor added again) and the calls in flight
\* as they were.
C8_SameRateIsNoOp ==
    [][LET same_setup == /\ completion'.op = "setup"
                         /\ completion'.auth = "granted"
                         /\ completion'.rate = ctx.rate
           same_enable == /\ completion'.op = "enable"
                          /\ skeleton.rate = ctx.rate
       IN (ctx # NULL /\ skeleton # NULL /\ (same_setup \/ same_enable)) =>
             /\ completion'.result = "ok"
             /\ ctx' = ctx
             /\ sources' = sources
             /\ next_source_id' = next_source_id
             /\ inflight' = inflight]_vars

\* C8 witness: a granted Setup(rate) found the first timer armed at that rate,
\* and that timer is still the only one ever created
C8_Witness ==
    /\ Granted
    /\ completion.result = "ok"
    /\ completion.had_timer
    /\ ctx # NULL
    /\ ctx.rate = completion.rate
    /\ ctx.timeout_source = 1
    /\ next_source_id = 2

\* C9: enable() or a granted Setup() that runs with the skeleton present while
\* the modem state is below "enabling" succeeds, attaches no timeout source,
\* issues no poll and leaves unavailable measurements unavailable; when it runs
\* in state "enabling" or above and the published rate is then nonzero, a
\* refresh context with that rate and its timeout source of that interval exist.
C9_NoTimerBelowEnabling ==
    [][LET ran == \/ completion'.op = "enable"
                  \/ completion'.op = "setup" /\ completion'.auth = "granted"
       IN (ran /\ skeleton # NULL) =>
             /\ modem_state < MM_MODEM_STATE_ENABLING =>
                   /\ completion'.result = "ok"
                   /\ sources' \subseteq sources
                   /\ next_source_id' = next_source_id
                   /\ inflight' = inflight
                   /\ (AllUnavailable(skeleton) => AllUnavailable(skeleton'))
             /\ (modem_state >= MM_MODEM_STATE_ENABLING /\ skeleton'.rate > 0) =>
                   /\ completion'.result = "ok"
                   /\ ctx' # NULL
                   /\ ctx'.rate = skeleton'.rate
                   /\ sources' = {[id |-> ctx'.timeout_source,
                                   interval |-> skeleton'.rate]}]_vars

\* C9 witness: enable() ran below "enabling" with a nonzero published rate and
\* no timer is armed
C9_Witness ==
    /\ completion.op = "enable"
    /\ completion.result = "ok"
    /\ modem_state < MM_MODEM_STATE_ENABLING
    /\ skeleton # NULL
    /\ skeleton.rate > 0
    /\ AllUnavailable(skeleton)
    /\ sources = {}

\* C10: without load_values in the backend every initialize() completes with
\* Unsupported, the interface is never exported and no "handle-setup" handler
\* is connected to the skeleton.
C10_UnsupportedNeverExported ==
    ~supported =>
        /\ ~exported
        /\ (skeleton # NULL => skeleton.handlers = 0)
        /\ (completion.op = "initialize" => completion.result = "Unsupported")

\* C10 witness: initialize() created the skeleton of an unsupported interface
C10_Witness ==
    /\ ~supported
    /\ completion.op = "initialize"
    /\ skeleton # NULL

\* What the skeleton publishes for backend result r: each property holds the
\* availability flag of its technology and its own reading
Published(sk, r) ==
    /\ sk.values["cdma_rssi"] = [available |-> r.available["cdma"], value |-> r.value["cdma_rssi"]]
    /\ sk.values["cdma_ecio"] = [available |-> r.available["cdma"], value |-> r.value["cdma_ecio"]]
    /\ sk.values["evdo_rssi"] = [available |-> r.available["evdo"], value |-> r.value["evdo_rssi"]]
    /\ sk.values["evdo_ecio"] = [available |-> r.available["evdo"], value |-> r.value["evdo_ecio"]]
    /\ sk.values["evdo_sinr"] = [available |-> r.available["evdo"], value |-> r.value["evdo_sinr"]]
    /\ sk.values["evdo_io"] = [available |-> r.available["evdo"], value |-> r.value["evdo_io"]]
    /\ sk.values["gsm_rssi"] = [available |-> r.available["gsm"], value |-> r.value["gsm_rssi"]]
    /\ sk.values["umts_rssi"] = [available |-> r.available["umts"], value |-> r.value["umts_rssi"]]
    /\ sk.values["umts_ecio"] = [available |-> r.available["umts"], value |-> r.value["umts_ecio"]]
    /\ sk.values["lte_rssi"] = [available |-> r.available["lte"], value |-> r.value["lte_rssi"]]
    /\ sk.values["lte_rsrq"] = [available |-> r.available["lte"], value |-> r.value["lte_rsrq"]]
    /\ sk.values["lte_rsrp"] = [available |-> r.available["lte"], value |-> r.value["lte_rsrp"]]
    /\ sk.values["lte_snr"] = [available |-> r.available["lte"], value |-> r.value["lte_snr"]]

\* C11: when the load of a poll fails, the measurements of the skeleton are all
\* unavailable afterwards, no Setup invocation is completed by it, and the
\* refresh context and its timeout source are left as they were, so that the
\* source can fire again and issue a new poll.
C11_FailedPollKeepsTimer ==
    /\ [][(completion'.op = "load_values_ready" /\ completion'.result = "error") =>
            /\ skeleton' # NULL => AllUnavailable(skeleton')
            /\ ctx' = ctx
            /\ sources' = sources
            /\ next_source_id' = next_source_id
            /\ pending' = pending
            /\ Len(inflight') = Len(inflight) - 1]_vars
    /\ []((completion.op = "load_values_ready" /\ completion.result = "error"
             /\ sources # {}) =>
            ENABLED (\E t \in sources : Timeout(t)))

\* C11 witness: a load failed with the timer armed and the skeleton present
C11_Witness ==
    /\ completion.op = "load_values_ready"
    /\ completion.result = "error"
    /\ completion.had_timer
    /\ sources # {}
    /\ skeleton # NULL
    /\ skeleton.rate > 0

\* C12: when enable() or a granted Setup() runs with the skeleton present, the
\* modem state at "enabling" or above and a nonzero rate that no refresh context
\* already has, it succeeds, the old timeout source is gone, the context holds
\* the new rate and one new source of that interval (the only one attached),
\* and exactly one more load_values call is in flight.
C12_RateChangeRearmsAndPolls ==
    [][LET ran == \/ completion'.op = "enable"
                  \/ completion'.op = "setup" /\ completion'.auth = "granted"
           new_rate == skeleton'.rate
       IN (/\ ran
           /\ skeleton # NULL
           /\ modem_state >= MM_MODEM_STATE_ENABLING
           /\ new_rate > 0
           /\ (ctx = NULL \/ ctx.rate # new_rate)) =>
             /\ completion'.result = "ok"
             /\ ctx' = [rate |-> new_rate, timeout_source |-> next_source_id]
             /\ sources' = {[id |-> next_source_id, interval |-> new_rate]}
             /\ next_source_id' = next_source_id + 1
             /\ inflight' = Append(inflight, "load_values")]_vars

\* C12 witness: a granted Setup(rate) ran with a timer armed and left the second
\* timer ever created, armed at the requested rate, with two polls in flight
C12_Witness ==
    /\ Granted
    /\ completion.result = "ok"
    /\ completion.had_timer
    /\ ctx # NULL
    /\ ctx.rate = completion.rate
    /\ ctx.timeout_source = 2
    /\ sources = {[id |-> 2, interval |-> completion.rate]}
    /\ Len(inflight) = 2

\* C13: after a successful load completed with the skeleton present, the
\* thirteen properties hold the flags and readings of one backend result and no
\* change is left unflushed; after a failed load the reset values have not been
\* flushed.
C13_SuccessfulPollPublishesAndFlushes ==
    completion.op = "load_values_ready" /\ skeleton # NULL =>
        /\ completion.result = "ok" =>
              /\ \E r \in LoadResults : Published(skeleton, r)
              /\ ~skeleton.dirty
        /\ completion.result = "error" => skeleton.dirty

\* C13 witness: a successful load published its values on the skeleton
C13_Witness ==
    /\ completion.op = "load_values_ready"
    /\ completion.result = "ok"
    /\ skeleton # NULL
    /\ skeleton.values["cdma_rssi"].available
    /\ ~skeleton.dirty

\* C14: a waiting Setup(rate) invocation leaves the queue exactly in the step
\* that completes it, and it is completed with the error of the authorization
\* when that was denied, with Failed when setup_refresh_context failed, and
\* otherwise with success, the published rate then being the requested one.
C14_SetupCompletedOnce ==
    [][/\ (completion'.op = "setup") <=> (Len(pending') = Len(pending) - 1)
       /\ Len(pending') >= Len(pending) =>
             (Len(pending') = Len(pending) + 1 <=> completion'.op = "handle_setup")
       /\ completion'.op = "setup" =>
             /\ completion'.auth = "denied" => completion'.result = "Unauthorized"
             /\ (completion'.auth = "granted" /\ skeleton = NULL) =>
                   completion'.result = "Failed"
             /\ (completion'.auth = "granted" /\ skeleton # NULL) =>
                   (completion'.result = "ok" /\ skeleton'.rate = completion'.rate)
             /\ completion'.result \in {"ok", "Unauthorized", "Failed"}]_vars

\* C14 witness: a granted Setup(rate) was completed with Failed
C14_Witness ==
    /\ Granted
    /\ completion.result = "Failed"
    /\ completion.rate > 0
    /\ pending = <<>>

\* C15: enable() or a granted Setup() that runs while the skeleton does not
\* exist fails with Failed and changes neither the skeleton, the refresh
\* context, the timeout sources nor the calls in flight.
C15_NoSkeletonFails ==
    [][LET ran == \/ completion'.op = "enable"
                  \/ completion'.op = "setup" /\ completion'.auth = "granted"
       IN (ran /\ skeleton = NULL) =>
             (completion'.result = "Failed" /\ UNCHANGED Measurements)]_vars

\* C15 witness: enable() failed after shutdown() with the timer still armed
C15_Witness ==
    /\ completion.op = "enable"
    /\ completion.result = "Failed"
    /\ skeleton = NULL
    /\ sources # {}

\* C16: initialize() on an existing skeleton changes nothing (same skeleton,
\* rate, measurements, handlers and export) and reports success when the
\* backend is supported and Unsupported when it is not.
C16_InitializeIdempotent ==
    [][(completion'.op = "initialize" /\ skeleton # NULL) =>
          /\ UNCHANGED Measurements
          /\ completion'.result = IF supported THEN "ok" ELSE "Unsupported"]_vars

\* C16 witness: initialize() ran again on a skeleton with a rate and published
\* measurements
C16_Witness ==
    /\ completion.op = "initialize"
    /\ skeleton # NULL
    /\ skeleton.rate > 0
    /\ ~AllUnavailable(skeleton)
    /\ skeleton.handlers = 1

\* C21: when a poll completed successfully and the next step completes a poll
\* that was issued before it (it stood ahead of it in the calls in flight), the
\* measurements published by the later-issued poll stay as they are.
C21_StaleCompletionKeepsNewer ==
    [][(/\ completion.op = "load_values_ready"
        /\ completion.result = "ok"
        /\ completion'.op = "load_values_ready"
        /\ completion'.older < completion.older
        /\ skeleton # NULL
        /\ skeleton' # NULL) =>
          skeleton'.values = skeleton.values]_vars

\* C22: at most one timeout source is attached at any time, and an attached
\* source is the one the existing refresh context refers to, armed at the rate
\* of the context; whenever the context is replaced, changed or released, the
\* source it referred to is no longer attached afterwards.
C22_OneTimerOwnedByContext ==
    /\ [](/\ Cardinality(sources) <= 1
          /\ \A t \in sources :
                /\ ctx # NULL
                /\ t = [id |-> ctx.timeout_source, interval |-> ctx.rate])
    /\ [][(ctx # NULL /\ ctx' # ctx) =>
            \A t \in sources : t.id = ctx.timeout_source => t \notin sources']_vars

\* C22 witness: enable() armed the second timer ever created, after disable()
\* had released the context of the first
C22_Witness ==
    /\ completion.op = "enable"
    /\ completion.result = "ok"
    /\ ~completion.had_timer
    /\ ctx # NULL
    /\ ctx.timeout_source = 2
    /\ sources = {[id |-> 2, interval |-> ctx.rate]}

\* C23: whenever a timeout source is attached and the skeleton exists, the
\* interval of the source and the rate of the refresh context equal the rate
\* property published on the skeleton.
C23_TimerIntervalIsPublishedRate ==
    (sources # {} /\ skeleton # NULL) =>
        /\ \A t \in sources : t.interval = skeleton.rate
        /\ ctx # NULL => ctx.rate = skeleton.rate

\* C24: without load_values in the backend no load_values call is ever in
\* flight, no timeout source is attached, no refresh context exists, no tick
\* and no completion of a load happens, no Setup() call is accepted, and the
\* rate published on the skeleton is 0.
C24_UnsupportedNeverPolls ==
    ~supported =>
        /\ inflight = <<>>
        /\ sources = {}
        /\ ctx = NULL
        /\ pending = <<>>
        /\ (skeleton # NULL => skeleton.rate = 0)
        /\ completion.op \notin {"timeout", "load_values_ready", "handle_setup", "setup"}

\* C24 witness: enable() ran on the skeleton of an unsupported interface with
\* the modem state at "enabling" or above
C24_Witness ==
    /\ ~supported
    /\ completion.op = "enable"
    /\ completion.result = "ok"
    /\ skeleton # NULL
    /\ modem_state >= MM_MODEM_STATE_ENABLING

----------------------------------------------------------------------------
(* Properties of the settings codec, under SpecCodec *)

WellShaped(v) == v # NULL /\ v.type = "(ua{sv})"
DecodedGiven == codec.pc = "decoded" /\ codec.origin = "variant"
HasKey(d, k) == \E i \in 1..Len(d) : d[i].key = k
OnlyKey(d, k) == \A i \in 1..Len(d) : d[i].key = k

\* C17: decoding the encoding of a valid settings object (method Unknown
\* without fields, or method Fastboot with its command) succeeds and gives
\* the same method and fields back.
C17_RoundTrip ==
    (/\ codec.pc = "decoded"
     /\ codec.origin = "settings"
     /\ codec.settings.method \in {MM_MODEM_FIRMWARE_UPDATE_METHOD_UNKNOWN,
                                   MM_MODEM_FIRMWARE_UPDATE_METHOD_FASTBOOT}) =>
        /\ codec.error = "none"
        /\ codec.result = codec.settings

\* C18: the encoding of a settings object is a (method, dictionary) tuple with
\* the method of the object; the dictionary holds the one entry "fastboot-at"
\* with the command for method Fastboot and is empty for every other method.
C18_EncodedShape ==
    (codec.pc = "encoded" /\ codec.origin = "settings") =>
        /\ WellShaped(codec.variant)
        /\ codec.variant.method = codec.settings.method
        /\ codec.variant.dict =
              IF codec.settings.method = MM_MODEM_FIRMWARE_UPDATE_METHOD_FASTBOOT
              THEN <<[key |-> PROPERTY_FASTBOOT_AT,
                      value |-> StringVariant(codec.settings.fastboot_at.str)]>>
              ELSE <<>>

\* C19: decoding a (method, dictionary) tuple whose dictionary has a key other
\* than "fastboot-at", at any position and for any method, fails with
\* InvalidArguments and returns no settings object.
C19_UnknownKeyRejected ==
    (/\ DecodedGiven
     /\ WellShaped(codec.variant)
     /\ ~OnlyKey(codec.variant.dict, PROPERTY_FASTBOOT_AT)) =>
        /\ codec.error = "InvalidArguments"
        /\ codec.result = NULL

\* C19 witness: method Fastboot, the unknown key comes after a "fastboot-at"
\* entry
C19_Witness ==
    /\ DecodedGiven
    /\ WellShaped(codec.variant)
    /\ codec.variant.method = MM_MODEM_FIRMWARE_UPDATE_METHOD_FASTBOOT
    /\ Len(codec.variant.dict) = 2
    /\ codec.variant.dict[1].key = PROPERTY_FASTBOOT_AT
    /\ codec.variant.dict[2].key # PROPERTY_FASTBOOT_AT
    /\ codec.error = "InvalidArguments"

\* C20: decoding a tuple of method Fastboot fails with InvalidArguments when no
\* entry has the key "fastboot-at"; when the dictionary has that key and no
\* other, it succeeds with method Fastboot and the command of the (last) entry.
C20_FastbootRequiresCommand ==
    (/\ DecodedGiven
     /\ WellShaped(codec.variant)
     /\ codec.variant.method = MM_MODEM_FIRMWARE_UPDATE_METHOD_FASTBOOT) =>
        LET d == codec.variant.dict
        IN /\ ~HasKey(d, PROPERTY_FASTBOOT_AT) =>
                 (codec.error = "InvalidArguments" /\ codec.result = NULL)
           /\ (d # <<>> /\ OnlyKey(d, PROPERTY_FASTBOOT_AT)) =>
                 /\ codec.error = "none"
                 /\ codec.result = [method |-> MM_MODEM_FIRMWARE_UPDATE_METHOD_FASTBOOT,
                                    fastboot_at |-> Str(d[Len(d)].value.str)]

\* C20 witness: a tuple of method Fastboot with the one entry "fastboot-at" was
\* decoded into a settings object
C20_Witness ==
    /\ DecodedGiven
    /\ WellShaped(codec.variant)
    /\ codec.variant.method = MM_MODEM_FIRMWARE_UPDATE_METHOD_FASTBOOT
    /\ Len(codec.variant.dict) = 1
    /\ codec.result # NULL
    /\ codec.result.fastboot_at = Str(codec.variant.dict[1].value.str)

====
